---- MODULE Spec2Model ----
(***************************************************************************)
(* Model of sqlite3/callback.go: the converters between SQLite value cells *)
(* and Go values that a registered SQL function needs.                     *)
(*                                                                         *)
(* 64-bit integers are little-endian two's-complement byte sequences, so   *)
(* that every Go integer width keeps its real size.  Strings and byte      *)
(* slices are sequences of bytes.  Floats are named by their exact decimal *)
(* value.                                                                  *)
(***************************************************************************)
EXTENDS Integers, Sequences, FiniteSets, TLC

\* Longest TEXT / BLOB / string / []byte content that is enumerated.
MaxLen == 2

\* The bytes that contents are built from: the NUL byte and 'A'.
ByteAlphabet == {0, 65}

RECURSIVE BytesOfLen(_)
BytesOfLen(n) ==
    IF n = 0 THEN {<<>>}
    ELSE {Append(s, b) : s \in BytesOfLen(n - 1), b \in ByteAlphabet}

ByteStrings == UNION {BytesOfLen(n) : n \in 0..MaxLen}

\* Representative sqlite3_int64 values, around every width's limits.
IntValues == {
    <<0, 0, 0, 0, 0, 0, 0, 0>>,                  \* 0
    <<1, 0, 0, 0, 0, 0, 0, 0>>,                  \* 1
    <<255, 255, 255, 255, 255, 255, 255, 255>>,  \* -1
    <<44, 1, 0, 0, 0, 0, 0, 0>>,                 \* 300
    <<127, 0, 0, 0, 0, 0, 0, 0>>,                \* 127
    <<128, 0, 0, 0, 0, 0, 0, 0>>,                \* 128
    <<128, 255, 255, 255, 255, 255, 255, 255>>,  \* -128
    <<127, 255, 255, 255, 255, 255, 255, 255>>,  \* -129
    <<255, 0, 0, 0, 0, 0, 0, 0>>,                \* 255
    <<0, 1, 0, 0, 0, 0, 0, 0>>,                  \* 256
    <<255, 127, 0, 0, 0, 0, 0, 0>>,              \* 32767
    <<0, 128, 0, 0, 0, 0, 0, 0>>,                \* 32768
    <<0, 128, 255, 255, 255, 255, 255, 255>>,    \* -32768
    <<255, 127, 255, 255, 255, 255, 255, 255>>,  \* -32769
    <<255, 255, 0, 0, 0, 0, 0, 0>>,              \* 65535
    <<0, 0, 1, 0, 0, 0, 0, 0>>,                  \* 65536
    <<255, 255, 255, 127, 0, 0, 0, 0>>,          \* 2147483647
    <<0, 0, 0, 128, 0, 0, 0, 0>>,                \* 2147483648
    <<0, 0, 0, 128, 255, 255, 255, 255>>,        \* -2147483648
    <<255, 255, 255, 127, 255, 255, 255, 255>>,  \* -2147483649
    <<255, 255, 255, 255, 0, 0, 0, 0>>,          \* 4294967295
    <<0, 0, 0, 0, 1, 0, 0, 0>>,                  \* 4294967296
    <<0, 242, 5, 42, 1, 0, 0, 0>>,               \* 5000000000
    <<255, 255, 255, 255, 255, 255, 255, 127>>,  \* 9223372036854775807
    <<0, 0, 0, 0, 0, 0, 0, 128>>                 \* -9223372036854775808
    }

Zero64 == <<0, 0, 0, 0, 0, 0, 0, 0>>
One64 == <<1, 0, 0, 0, 0, 0, 0, 0>>

\* float64 values, named by their exact decimal value.  3.14 is not a
\* float32; its nearest float32 is 3.140000104904175.  1e300 exceeds float32.
F64Values == {"0", "1.5", "3.14", "3.140000104904175", "1e300", "+Inf"}

\* float64 -> float32 conversion (round to nearest, overflow to infinity).
Round32(f) ==
    CASE f = "3.14" -> "3.140000104904175"
      [] f = "1e300" -> "+Inf"
      [] OTHER -> f

F32Values == {Round32(f) : f \in F64Values}

(***************************************************************************)
(* reflect.Type: the Kind, whether the type is a defined (named) type, the *)
(* element type of a slice, and the method count of an interface.          *)
(***************************************************************************)
SignedKinds == {"int", "int8", "int16", "int32", "int64"}
UnsignedKinds == {"uint", "uint8", "uint16", "uint32", "uint64", "uintptr"}
IntKinds == SignedKinds \cup UnsignedKinds
FloatKinds == {"float32", "float64"}
OpaqueKinds == {"complex128", "struct", "ptr", "map"}
ScalarKinds == {"bool", "string"} \cup IntKinds \cup FloatKinds \cup OpaqueKinds
ElemKinds == {"uint8", "int8", "int32", "string"}

ScalarType(k, named) ==
    [kind |-> k, named |-> named, elemKind |-> "", elemNamed |-> FALSE, numMethod |-> 0]

SliceType(named, ek, en) ==
    [kind |-> "slice", named |-> named, elemKind |-> ek, elemNamed |-> en, numMethod |-> 0]

InterfaceType(named, n) ==
    [kind |-> "interface", named |-> named, elemKind |-> "", elemNamed |-> FALSE, numMethod |-> n]

Types ==
    {ScalarType(k, n) : k \in ScalarKinds, n \in BOOLEAN}
    \cup {SliceType(n, ek, en) : n \in BOOLEAN, ek \in ElemKinds, en \in BOOLEAN}
    \cup {InterfaceType(n, m) : n \in BOOLEAN, m \in 0..1}

\* The type of a zero reflect.Value and the predeclared types the code names.
InvalidType == ScalarType("invalid", FALSE)
TInt64 == ScalarType("int64", FALSE)
TBool == ScalarType("bool", FALSE)
TFloat64 == ScalarType("float64", FALSE)
TString == ScalarType("string", FALSE)
TBytes == SliceType(FALSE, "uint8", FALSE)

\* Size in bytes of an integer kind; int, uint and uintptr follow the build.
Width(k, intSize) ==
    CASE k \in {"int8", "uint8"} -> 1
      [] k \in {"int16", "uint16"} -> 2
      [] k \in {"int32", "uint32"} -> 4
      [] k \in {"int64", "uint64"} -> 8
      [] OTHER -> intSize

(***************************************************************************)
(* reflect.Value: a type and a payload.  Only the field the type's kind    *)
(* uses is meaningful; the others keep their defaults.                     *)
(***************************************************************************)
MkValue(t, b, bytes, flt, isNil) ==
    [typ |-> t, b |-> b, bytes |-> bytes, flt |-> flt, isNil |-> isNil]

NoValue == MkValue(InvalidType, FALSE, <<>>, "", FALSE)
IntValue(t, bytes) == MkValue(t, FALSE, bytes, "", FALSE)
BoolValue(t, b) == MkValue(t, b, <<>>, "", FALSE)
FloatValue(t, f) == MkValue(t, FALSE, <<>>, f, FALSE)
BytesValue(t, bytes) == MkValue(t, FALSE, bytes, "", FALSE)
NilSlice(t) == MkValue(t, FALSE, <<>>, "", TRUE)
OpaqueValue(t) == MkValue(t, FALSE, <<>>, "", FALSE)

\* Errors of the package: a result code and a formatted message.
NoErr == [code |-> "OK", fmt |-> "", args |-> <<>>]
pkgErr(code, fmt, args) == [code |-> code, fmt |-> fmt, args |-> args]

(***************************************************************************)
(* sqlite3_value cells.                                                    *)
(***************************************************************************)
MkCell(k, i, d, bytes) == [kind |-> k, i64 |-> i, dbl |-> d, bytes |-> bytes]

Cells ==
    {MkCell("INTEGER", i, "0", <<>>) : i \in IntValues}
    \cup {MkCell("FLOAT", Zero64, f, <<>>) : f \in F64Values}
    \cup {MkCell(k, Zero64, "0", s) : k \in {"TEXT", "BLOB"}, s \in ByteStrings}
    \cup {MkCell("NULL", Zero64, "0", <<>>)}

\* The bytes of a NUL-terminated C string: everything before the first NUL.
RECURSIVE UpToNul(_)
UpToNul(s) ==
    IF s = <<>> \/ Head(s) = 0 THEN <<>>
    ELSE <<Head(s)>> \o UpToNul(Tail(s))

\* C.GoBytes(p, l) and C.GoStringN(p, l): a copy of l bytes.
GoBytes(buf, l) == SubSeq(buf, 1, l)
GoStringN(buf, l) == SubSeq(buf, 1, l)
\* C.GoString(p): a copy up to the terminating NUL of the buffer.
GoString(buf) == UpToNul(buf)

\* sqlite3_value_bytes, sqlite3_value_blob, sqlite3_value_text
sqlite3_value_bytes(v) == Len(v.bytes)
sqlite3_value_blob(v) == v.bytes
sqlite3_value_text(v) == v.bytes \o <<0>>

Result(val, err) == [val |-> val, err |-> err]


(***************************************************************************)
(* reflect conversions between numeric types.                              *)
(***************************************************************************)
RECURSIVE Fill(_, _)
Fill(n, b) == IF n <= 0 THEN <<>> ELSE <<b>> \o Fill(n - 1, b)

\* An integer of kind k widened to 64 bits: sign- or zero-extension.
Extend64(bytes, k) ==
    LET neg == k \in SignedKinds /\ bytes[Len(bytes)] >= 128
    IN bytes \o Fill(8 - Len(bytes), IF neg THEN 255 ELSE 0)

\* reflect.Type.ConvertibleTo among the kinds of the model.
ConvertibleTo(from, to) ==
    \/ from = to
    \/ from.kind \in IntKinds \cup FloatKinds /\ to.kind \in IntKinds \cup FloatKinds
    \/ from.kind \in IntKinds /\ to.kind = "string"
    \/ from.kind = to.kind /\ from.kind \in {"bool", "string", "complex128"}

\* reflect.Value.Convert: integer to integer keeps the low bytes of the
\* 64-bit extension, float to float rounds to the target precision.  The
\* code converts integers to integers and floats to floats only.
Convert(val, to, intSize) ==
    CASE val.typ.kind \in IntKinds /\ to.kind \in IntKinds ->
            IntValue(to, SubSeq(Extend64(val.bytes, val.typ.kind), 1, Width(to.kind, intSize)))
      [] val.typ.kind \in FloatKinds /\ to.kind = "float32" ->
            FloatValue(to, Round32(val.flt))
      [] val.typ.kind \in FloatKinds /\ to.kind = "float64" ->
            FloatValue(to, val.flt)
      [] OTHER -> MkValue(to, val.b, val.bytes, val.flt, val.isNil)

(***************************************************************************)
(* Argument converters.                                                    *)
(***************************************************************************)
callbackArgInt64(v) ==
    IF v.kind # "INTEGER"
    THEN Result(NoValue, pkgErr("MISUSE", "argument must be an INTEGER", <<>>))
    ELSE Result(IntValue(TInt64, v.i64), NoErr)

\* callbackArgBool without its sqlite3_value_type test.
callbackArgBool_NoKindTest(v) ==
    Result(BoolValue(TBool, v.i64 # Zero64), NoErr)

callbackArgBool(v) ==
    IF v.kind # "INTEGER"
    THEN Result(NoValue, pkgErr("MISUSE", "argument must be an INTEGER", <<>>))
    ELSE Result(BoolValue(TBool, v.i64 # Zero64), NoErr)

callbackArgFloat64(v) ==
    IF v.kind # "FLOAT"
    THEN Result(NoValue, pkgErr("MISUSE", "argument must be a FLOAT", <<>>))
    ELSE Result(FloatValue(TFloat64, v.dbl), NoErr)

callbackArgBytes(v) ==
    CASE v.kind = "BLOB" ->
            Result(BytesValue(TBytes, GoBytes(sqlite3_value_blob(v), sqlite3_value_bytes(v))), NoErr)
      [] v.kind = "TEXT" ->
            Result(BytesValue(TBytes, GoBytes(sqlite3_value_text(v), sqlite3_value_bytes(v))), NoErr)
      [] OTHER -> Result(NoValue, pkgErr("MISUSE", "argument must be BLOB or TEXT", <<>>))

callbackArgString(v) ==
    CASE v.kind = "BLOB" ->
            Result(BytesValue(TString, GoStringN(sqlite3_value_blob(v), sqlite3_value_bytes(v))), NoErr)
      [] v.kind = "TEXT" ->
            Result(BytesValue(TString, GoString(sqlite3_value_text(v))), NoErr)
      [] OTHER -> Result(NoValue, pkgErr("MISUSE", "argument must be BLOB or TEXT", <<>>))

\* callbackArgGeneric with the TEXT and BLOB cases exchanged.
callbackArgGeneric_TextBlobSwapped(v) ==
    CASE v.kind = "INTEGER" -> callbackArgInt64(v)
      [] v.kind = "FLOAT" -> callbackArgFloat64(v)
      [] v.kind = "TEXT" -> callbackArgBytes(v)
      [] v.kind = "BLOB" -> callbackArgString(v)
      [] v.kind = "NULL" -> Result(NilSlice(TBytes), NoErr)

callbackArgGeneric(v) ==
    CASE v.kind = "INTEGER" -> callbackArgInt64(v)
      [] v.kind = "FLOAT" -> callbackArgFloat64(v)
      [] v.kind = "TEXT" -> callbackArgString(v)
      [] v.kind = "BLOB" -> callbackArgBytes(v)
      [] v.kind = "NULL" -> Result(NilSlice(TBytes), NoErr)

\* A callbackArgConverter: one of the functions above, or the Run method
\* of a callbackArgCast{f, typ}.
ArgConv(name, f, t) == [name |-> name, f |-> f, typ |-> t]
NilConv == ArgConv("nil", "", InvalidType)

\* The call c.f(v) of a callbackArgCast.
CastBase(c, v) ==
    IF c.f = "callbackArgInt64" THEN callbackArgInt64(v) ELSE callbackArgFloat64(v)

\* callbackArgCast.Run
Run(c, v, intSize) ==
    LET r == CastBase(c, v)
    IN IF r.err # NoErr THEN Result(NoValue, r.err)
       ELSE IF ~ConvertibleTo(r.val.typ, c.typ)
            THEN Result(NoValue, pkgErr("MISUSE", "cannot convert %s to %s", <<r.val.typ, c.typ>>))
            ELSE Result(Convert(r.val, c.typ, intSize), NoErr)

\* Calling a callbackArgConverter value.
CallArgConv(c, v, intSize) ==
    CASE c.name = "callbackArgGeneric" -> callbackArgGeneric(v)
      [] c.name = "callbackArgBytes" -> callbackArgBytes(v)
      [] c.name = "callbackArgString" -> callbackArgString(v)
      [] c.name = "callbackArgBool" -> callbackArgBool(v)
      [] c.name = "callbackArgInt64" -> callbackArgInt64(v)
      [] c.name = "callbackArgFloat64" -> callbackArgFloat64(v)
      [] c.name = "callbackArgCast.Run" -> Run(c, v, intSize)

Built(c, err) == [conv |-> c, err |-> err]

\* callbackArg without the NumMethod test of the interface case.
callbackArg_AnyInterface(t) ==
    CASE t.kind = "interface" -> Built(ArgConv("callbackArgGeneric", "", InvalidType), NoErr)
      [] t.kind = "slice" ->
            IF t.elemKind # "uint8"
            THEN Built(NilConv, pkgErr("MISUSE", "the only supported slice type is []byte", <<>>))
            ELSE Built(ArgConv("callbackArgBytes", "", InvalidType), NoErr)
      [] t.kind = "string" -> Built(ArgConv("callbackArgString", "", InvalidType), NoErr)
      [] t.kind = "bool" -> Built(ArgConv("callbackArgBool", "", InvalidType), NoErr)
      [] t.kind = "int64" -> Built(ArgConv("callbackArgInt64", "", InvalidType), NoErr)
      [] t.kind \in {"int8", "int16", "int32", "uint8", "uint16", "uint32", "uint64", "int", "uint"} ->
            Built(ArgConv("callbackArgCast.Run", "callbackArgInt64", t), NoErr)
      [] t.kind = "float64" -> Built(ArgConv("callbackArgFloat64", "", InvalidType), NoErr)
      [] t.kind = "float32" ->
            Built(ArgConv("callbackArgCast.Run", "callbackArgFloat64", t), NoErr)
      [] OTHER -> Built(NilConv, pkgErr("MISUSE", "don't know how to convert to %s", <<t>>))

callbackArg(t) ==
    CASE t.kind = "interface" ->
            IF t.numMethod # 0
            THEN Built(NilConv, pkgErr("MISUSE", "the only supported interface type is interface{}", <<>>))
            ELSE Built(ArgConv("callbackArgGeneric", "", InvalidType), NoErr)
      [] t.kind = "slice" ->
            IF t.elemKind # "uint8"
            THEN Built(NilConv, pkgErr("MISUSE", "the only supported slice type is []byte", <<>>))
            ELSE Built(ArgConv("callbackArgBytes", "", InvalidType), NoErr)
      [] t.kind = "string" -> Built(ArgConv("callbackArgString", "", InvalidType), NoErr)
      [] t.kind = "bool" -> Built(ArgConv("callbackArgBool", "", InvalidType), NoErr)
      [] t.kind = "int64" -> Built(ArgConv("callbackArgInt64", "", InvalidType), NoErr)
      [] t.kind \in {"int8", "int16", "int32", "uint8", "uint16", "uint32", "uint64", "int", "uint"} ->
            Built(ArgConv("callbackArgCast.Run", "callbackArgInt64", t), NoErr)
      [] t.kind = "float64" -> Built(ArgConv("callbackArgFloat64", "", InvalidType), NoErr)
      [] t.kind = "float32" ->
            Built(ArgConv("callbackArgCast.Run", "callbackArgFloat64", t), NoErr)
      [] OTHER -> Built(NilConv, pkgErr("MISUSE", "don't know how to convert to %s", <<t>>))


(***************************************************************************)
(* Return converters.  ctx is the sequence of result writes the call has   *)
(* made into its sqlite3_context so far.  A failed type assertion          *)
(* x.(T) panics: the outcome then has panic = TRUE and no further write.   *)
(***************************************************************************)
MkWrite(prim, bytes, flt, copy, err) ==
    [prim |-> prim, bytes |-> bytes, flt |-> flt, copy |-> copy, err |-> err]

sqlite3_result_int64(ctx, bytes) == Append(ctx, MkWrite("int64", bytes, "", FALSE, NoErr))
sqlite3_result_double(ctx, f) == Append(ctx, MkWrite("double", <<>>, f, FALSE, NoErr))
sqlite3_result_null(ctx) == Append(ctx, MkWrite("null", <<>>, "", FALSE, NoErr))
\* sqlite3_result_blob(ctx, b, l, SQLITE_TRANSIENT): l bytes, copied.
sqlite3_result_blob(ctx, buf, l) == Append(ctx, MkWrite("blob", SubSeq(buf, 1, l), "", TRUE, NoErr))
\* sqlite3_result_text(ctx, s, -1, SQLITE_STATIC): up to the NUL, not copied.
sqlite3_result_text(ctx, buf) == Append(ctx, MkWrite("text", UpToNul(buf), "", FALSE, NoErr))
sqlite3_result_error(ctx, err) == Append(ctx, MkWrite("error", <<>>, "", FALSE, err))

\* cStr(s): a NUL-terminated C view of the string.
cStr(s) == s \o <<0>>

Outcome(ctx, err, panic) == [ctx |-> ctx, err |-> err, panic |-> panic]
Panic(ctx) == Outcome(ctx, NoErr, TRUE)

callbackRetInteger(ctx, v0, intSize) ==
    LET k == v0.typ.kind
        isInt == k \in {"int8", "int16", "int32", "uint8", "uint16", "uint32", "uint64", "int", "uint"}
    IN CASE k = "bool" /\ v0.typ # TBool -> Panic(ctx)
         [] k \notin {"int64", "bool"} /\ ~isInt ->
                Outcome(ctx, pkgErr("MISUSE", "cannot convert %s to INTEGER", <<v0.typ>>), FALSE)
         [] OTHER ->
                LET v == CASE k = "int64" -> v0
                           [] isInt -> Convert(v0, TInt64, intSize)
                           [] k = "bool" -> IntValue(TInt64, IF v0.b THEN One64 ELSE Zero64)
                IN IF v.typ # TInt64 THEN Panic(ctx)
                   ELSE Outcome(sqlite3_result_int64(ctx, v.bytes), NoErr, FALSE)

callbackRetFloat(ctx, v0, intSize) ==
    LET k == v0.typ.kind
    IN IF k \notin {"float64", "float32"}
       THEN Outcome(ctx, pkgErr("MISUSE", "cannot convert %s to FLOAT", <<v0.typ>>), FALSE)
       ELSE LET v == IF k = "float64" THEN v0 ELSE Convert(v0, TFloat64, intSize)
            IN IF v.typ # TFloat64 THEN Panic(ctx)
               ELSE Outcome(sqlite3_result_double(ctx, v.flt), NoErr, FALSE)

callbackRetBlob(ctx, v) ==
    IF v.typ.kind # "slice" \/ v.typ.elemKind # "uint8"
    THEN Outcome(ctx, pkgErr("MISUSE", "cannot convert %s to BLOB", <<v.typ>>), FALSE)
    ELSE \* v.Interface() of a slice Value is never the nil interface
         IF v.typ # TBytes THEN Panic(ctx)
         ELSE IF Len(v.bytes) = 0
              THEN Outcome(sqlite3_result_null(ctx), NoErr, FALSE)
              ELSE Outcome(sqlite3_result_blob(ctx, v.bytes, Len(v.bytes)), NoErr, FALSE)

callbackRetText(ctx, v) ==
    IF v.typ.kind # "string"
    THEN Outcome(ctx, pkgErr("MISUSE", "cannot convert %s to TEXT", <<v.typ>>), FALSE)
    ELSE IF v.typ # TString THEN Panic(ctx)
         ELSE Outcome(sqlite3_result_text(ctx, cStr(v.bytes)), NoErr, FALSE)

\* Calling a callbackRetConverter value.
CallRetConv(c, ctx, v, intSize) ==
    CASE c.name = "callbackRetInteger" -> callbackRetInteger(ctx, v, intSize)
      [] c.name = "callbackRetFloat" -> callbackRetFloat(ctx, v, intSize)
      [] c.name = "callbackRetBlob" -> callbackRetBlob(ctx, v)
      [] c.name = "callbackRetText" -> callbackRetText(ctx, v)

RetConv(name) == ArgConv(name, "", InvalidType)

\* callbackRet with the unsupported slice falling through to the default.
callbackRet_SliceDefault(t) ==
    CASE t.kind = "slice" /\ t.elemKind = "uint8" -> Built(RetConv("callbackRetBlob"), NoErr)
      [] t.kind = "string" -> Built(RetConv("callbackRetText"), NoErr)
      [] t.kind \in {"bool", "int8", "int16", "int32", "int64", "uint8", "uint16", "uint32", "uint64", "int", "uint"} ->
            Built(RetConv("callbackRetInteger"), NoErr)
      [] t.kind \in {"float32", "float64"} -> Built(RetConv("callbackRetFloat"), NoErr)
      [] OTHER -> Built(NilConv, pkgErr("MISUSE", "don't know how to convert to %s", <<t>>))

callbackRet(t) ==
    CASE t.kind = "slice" ->
            IF t.elemKind # "uint8"
            THEN Built(NilConv, pkgErr("MISUSE", "the only supported slice type is []byte", <<>>))
            ELSE Built(RetConv("callbackRetBlob"), NoErr)
      [] t.kind = "string" -> Built(RetConv("callbackRetText"), NoErr)
      [] t.kind \in {"bool", "int8", "int16", "int32", "int64", "uint8", "uint16", "uint32", "uint64", "int", "uint"} ->
            Built(RetConv("callbackRetInteger"), NoErr)
      [] t.kind \in {"float32", "float64"} -> Built(RetConv("callbackRetFloat"), NoErr)
      [] OTHER -> Built(NilConv, pkgErr("MISUSE", "don't know how to convert to %s", <<t>>))

callbackError(ctx, err) == sqlite3_result_error(ctx, err)

(***************************************************************************)
(* The Go values a host function can hand to a return converter.           *)
(***************************************************************************)
ValuesOf(t, intSize) ==
    CASE t.kind = "bool" -> {BoolValue(t, b) : b \in BOOLEAN}
      [] t.kind \in IntKinds ->
            {IntValue(t, SubSeq(i, 1, Width(t.kind, intSize))) : i \in IntValues}
      [] t.kind = "float64" -> {FloatValue(t, f) : f \in F64Values}
      [] t.kind = "float32" -> {FloatValue(t, f) : f \in F32Values}
      [] t.kind = "string" -> {BytesValue(t, s) : s \in ByteStrings}
      [] t.kind = "slice" /\ t.elemKind = "uint8" ->
            {BytesValue(t, s) : s \in ByteStrings} \cup {NilSlice(t)}
      [] OTHER -> {OpaqueValue(t)}

HostValues(intSize) == UNION {ValuesOf(t, intSize) : t \in Types}

(***************************************************************************)
(* The state machine: one converter is built for a declared type, then it  *)
(* is run call after call.                                                 *)
(***************************************************************************)
VARIABLES
    pc,        \* "init", "argBuilt", "argRejected", "argRun", "retBuilt",
               \* "retRejected", "retRun", "retFailed", "retReported", "panicked"
    intSize,   \* bytes of int and uint in this build: 4 or 8
    typ,       \* the declared type the converter was built for
    conv,      \* the converter
    buildErr,  \* the error of callbackArg / callbackRet
    cell,      \* the sqlite3_value of the last call
    out,       \* the (reflect.Value, error) of the last argument conversion
    hv,        \* the Go value the last call returned
    ctx,       \* the writes of the last call into its sqlite3_context
    retErr,    \* the error the return converter returned in the last call
    panicked   \* the last call ended in a Go panic

vars == <<pc, intSize, typ, conv, buildErr, cell, out, hv, ctx, retErr, panicked>>

NoCell == MkCell("NULL", Zero64, "0", <<>>)

Init ==
    /\ pc = "init"
    /\ intSize \in {4, 8}
    /\ typ = InvalidType
    /\ conv = NilConv
    /\ buildErr = NoErr
    /\ cell = NoCell
    /\ out = Result(NoValue, NoErr)
    /\ hv = NoValue
    /\ ctx = <<>>
    /\ retErr = NoErr
    /\ panicked = FALSE

\* Registration builds the converter of a parameter of type t.
BuildArg(t) ==
    /\ pc = "init"
    /\ LET r == callbackArg(t)
       IN /\ conv' = r.conv
          /\ buildErr' = r.err
          /\ pc' = IF r.err = NoErr THEN "argBuilt" ELSE "argRejected"
    /\ typ' = t
    /\ UNCHANGED <<intSize, cell, out, hv, ctx, retErr, panicked>>

\* A call converts the cell c with the parameter's converter.
RunArg(c) ==
    /\ pc = "argBuilt"
    /\ cell' = c
    /\ out' = CallArgConv(conv, c, intSize)
    /\ pc' = "argRun"
    /\ UNCHANGED <<intSize, typ, conv, buildErr, hv, ctx, retErr, panicked>>

\* Registration builds the converter of a return type t.
BuildRet(t) ==
    /\ pc = "init"
    /\ LET r == callbackRet(t)
       IN /\ conv' = r.conv
          /\ buildErr' = r.err
          /\ pc' = IF r.err = NoErr THEN "retBuilt" ELSE "retRejected"
    /\ typ' = t
    /\ UNCHANGED <<intSize, cell, out, hv, ctx, retErr, panicked>>

\* A call whose host function returned h: the return converter runs on the
\* call's fresh context.
RunRet(h) ==
    /\ pc = "retBuilt"
    /\ hv' = h
    /\ LET r == CallRetConv(conv, <<>>, h, intSize)
       IN /\ retErr' = r.err
          /\ panicked' = r.panic
          /\ ctx' = r.ctx
          /\ pc' = CASE r.panic -> "panicked"
                     [] ~r.panic /\ r.err # NoErr -> "retFailed"
                     [] OTHER -> "retRun"
    /\ UNCHANGED <<intSize, typ, conv, buildErr, cell, out>>

\* The caller reports the error of a failed return conversion.
ReportError ==
    /\ pc = "retFailed"
    /\ ctx' = callbackError(ctx, retErr)
    /\ pc' = "retReported"
    /\ UNCHANGED <<intSize, typ, conv, buildErr, cell, out, hv, retErr, panicked>>

\* The call is over: its cell, values and context are gone, and the
\* converter is ready for the next call.
Return ==
    /\ pc \in {"argRun", "retRun", "retReported"}
    /\ pc' = IF pc = "argRun" THEN "argBuilt" ELSE "retBuilt"
    /\ cell' = NoCell
    /\ out' = Result(NoValue, NoErr)
    /\ hv' = NoValue
    /\ ctx' = <<>>
    /\ retErr' = NoErr
    /\ UNCHANGED <<intSize, typ, conv, buildErr, panicked>>

Next ==
    \/ pc = "init" /\ \E t \in Types : BuildArg(t)
    \/ pc = "argBuilt" /\ \E c \in Cells : RunArg(c)
    \/ pc = "init" /\ \E t \in Types : BuildRet(t)
    \/ pc = "retBuilt" /\ \E h \in HostValues(intSize) : RunRet(h)
    \/ ReportError
    \/ Return

Spec == Init /\ [][Next]_vars

TypeOK ==
    /\ pc \in {"init", "argBuilt", "argRejected", "argRun", "retBuilt", "retRejected", "retRun", "retFailed", "retReported", "panicked"}
    /\ intSize \in {4, 8}
    /\ cell \in Cells
    /\ Len(ctx) <= 2


(***************************************************************************)
(* Properties.                                                             *)
(***************************************************************************)

\* Signed comparison a <= b of two 64-bit values, most significant byte first.
RECURSIVE LeFrom(_, _, _)
LeFrom(a, b, i) ==
    IF i = 0 THEN TRUE
    ELSE LET ka == IF i = 8 THEN (a[i] + 128) % 256 ELSE a[i]
             kb == IF i = 8 THEN (b[i] + 128) % 256 ELSE b[i]
         IN IF ka # kb THEN ka < kb ELSE LeFrom(a, b, i - 1)

Le64(a, b) == LeFrom(a, b, 8)

\* The smallest and largest value of an integer kind, as 64-bit values
\* (the largest uint64 is capped at the largest int64).
MinOf(k, sz) ==
    IF k \in SignedKinds
    THEN Fill(Width(k, sz) - 1, 0) \o <<128>> \o Fill(8 - Width(k, sz), 255)
    ELSE Zero64

MaxOf(k, sz) ==
    IF k \in SignedKinds \/ Width(k, sz) = 8
    THEN Fill(Width(k, sz) - 1, 255) \o <<127>> \o Fill(8 - Width(k, sz), 0)
    ELSE Fill(Width(k, sz), 255) \o Fill(8 - Width(k, sz), 0)

InRange(v, k, sz) == Le64(MinOf(k, sz), v) /\ Le64(v, MaxOf(k, sz))

\* The cell kinds a typed argument converter accepts.
RequiredKinds(c) ==
    CASE c.name \in {"callbackArgInt64", "callbackArgBool"} -> {"INTEGER"}
      [] c.name = "callbackArgFloat64" -> {"FLOAT"}
      [] c.name \in {"callbackArgBytes", "callbackArgString"} -> {"TEXT", "BLOB"}
      [] c.name = "callbackArgCast.Run" /\ c.f = "callbackArgInt64" -> {"INTEGER"}
      [] c.name = "callbackArgCast.Run" /\ c.f = "callbackArgFloat64" -> {"FLOAT"}
      [] OTHER -> {"INTEGER", "FLOAT", "TEXT", "BLOB", "NULL"}

IsMisuse(e) == e # NoErr /\ e.code = "MISUSE"

ValuePrims == {"int64", "double", "null", "blob", "text"}
ValueWrites == {i \in 1..Len(ctx) : ctx[i].prim \in ValuePrims}
ErrorWrites == {i \in 1..Len(ctx) : ctx[i].prim = "error"}

\* The return converter has run; the call is over.
AfterRunRet == pc \in {"retRun", "retFailed", "panicked"}
CallOver == pc \in {"retRun", "retReported", "panicked"}

\* C1: a cast converter for an integer width W other than int64, run on an
\* Integer cell v, yields v as a W when v is within W's range, and fails
\* with MISUSE and no value when v is outside W's range.
C1_CastChecksRange ==
    (pc = "argRun" /\ conv.name = "callbackArgCast.Run"
        /\ conv.f = "callbackArgInt64" /\ cell.kind = "INTEGER")
    => IF InRange(cell.i64, typ.kind, intSize)
       THEN /\ out.err = NoErr
            /\ out.val = IntValue(typ, SubSeq(cell.i64, 1, Width(typ.kind, intSize)))
       ELSE /\ IsMisuse(out.err)
            /\ out.val = NoValue

\* C2: one return conversion writes the result slot exactly once: a value
\* or NULL and no error on success, an error message and no value on failure.
C2_ResultWrittenExactlyOnce ==
    CallOver
    => /\ Len(ctx) = 1
       /\ retErr = NoErr => Cardinality(ValueWrites) = 1 /\ ErrorWrites = {}
       /\ retErr # NoErr => Cardinality(ErrorWrites) = 1 /\ ValueWrites = {}

\* C3: a typed argument converter run on a cell whose kind it does not
\* accept returns a MISUSE error and no Go value.
C3_KindMismatchIsMisuse ==
    (pc = "argRun" /\ conv.name # "callbackArgGeneric" /\ cell.kind \notin RequiredKinds(conv))
    => /\ IsMisuse(out.err)
       /\ out.val = NoValue

C3_Witness ==
    /\ pc = "argRun"
    /\ conv.name = "callbackArgCast.Run"
    /\ cell.kind = "TEXT"
    /\ IsMisuse(out.err)

\* C4: a return converter chosen by callbackRet, run on any Go value, either
\* writes a result and succeeds or returns a MISUSE error; it never panics.
C4_ReturnConversionNeverPanics ==
    AfterRunRet
    => /\ ~panicked
       /\ \/ retErr = NoErr /\ ValueWrites # {}
          \/ IsMisuse(retErr)

\* C5: the generic argument converter never fails; on an Integer, Float,
\* Text or Blob cell it returns what the Integer, Float, String or Bytes
\* converter returns, and on a Null cell the nil byte slice.
C5_GenericDelegates ==
    (pc = "argRun" /\ conv.name = "callbackArgGeneric")
    => /\ out.err = NoErr
       /\ cell.kind = "INTEGER" => out = callbackArgInt64(cell) /\ out.val = IntValue(TInt64, cell.i64)
       /\ cell.kind = "FLOAT" => out = callbackArgFloat64(cell) /\ out.val = FloatValue(TFloat64, cell.dbl)
       /\ cell.kind = "TEXT" => out = callbackArgString(cell)
       /\ cell.kind = "BLOB" => out = callbackArgBytes(cell)
       /\ cell.kind = "NULL" => out.val = NilSlice(TBytes)

C5_Witness ==
    /\ pc = "argRun"
    /\ conv.name = "callbackArgGeneric"
    /\ cell.kind = "TEXT"
    /\ Len(cell.bytes) > 0
    /\ out.val.typ = TString

\* C6: the BLOB return converter writes NULL for a nil or empty byte
\* sequence, a copied blob of the same bytes for a non-empty one, and for a
\* value of any other type writes nothing and returns MISUSE
\* "cannot convert X to BLOB".
C6_BlobReturn ==
    (AfterRunRet /\ conv.name = "callbackRetBlob")
    => IF hv.typ.kind = "slice" /\ hv.typ.elemKind = "uint8"
       THEN /\ retErr = NoErr
            /\ ctx = IF Len(hv.bytes) = 0
                     THEN <<MkWrite("null", <<>>, "", FALSE, NoErr)>>
                     ELSE <<MkWrite("blob", hv.bytes, "", TRUE, NoErr)>>
       ELSE /\ retErr = pkgErr("MISUSE", "cannot convert %s to BLOB", <<hv.typ>>)
            /\ ctx = <<>>

\* The declared parameter types callbackArg has no converter for.
UnsupportedArgType(t) ==
    \/ t.kind = "slice" /\ t.elemKind # "uint8"
    \/ t.kind = "interface" /\ t.numMethod >= 1
    \/ t.kind \notin {"interface", "slice", "string", "bool",
                      "int8", "int16", "int32", "int64",
                      "uint8", "uint16", "uint32", "uint64",
                      "int", "uint", "float32", "float64"}

\* C7: callbackArg returns either a converter or a MISUSE error, the error
\* exactly for the unsupported types; a converter it returned fails at call
\* time only on a cell of the wrong kind or on the numeric cast.
C7_ArgBuildErrors ==
    /\ pc \in {"argBuilt", "argRejected", "argRun"}
       => /\ (buildErr # NoErr) <=> UnsupportedArgType(typ)
          /\ (buildErr # NoErr) <=> (conv = NilConv)
          /\ buildErr # NoErr => IsMisuse(buildErr)
          /\ (pc = "argRejected") <=> (buildErr # NoErr)
    /\ (pc = "argRun" /\ out.err # NoErr)
       => /\ IsMisuse(out.err)
          /\ \/ cell.kind \notin RequiredKinds(conv)
             \/ conv.name = "callbackArgCast.Run" /\ out.err.fmt = "cannot convert %s to %s"

C7_Witness ==
    /\ pc = "argRejected"
    /\ typ.kind = "interface"
    /\ conv = NilConv
    /\ IsMisuse(buildErr)

\* The declared return types outside the integer family, the float family,
\* []byte and string.
OutsideRetFamilies(t) ==
    /\ t.kind \notin {"bool", "int8", "int16", "int32", "int64",
                      "uint8", "uint16", "uint32", "uint64", "int", "uint",
                      "float32", "float64", "string"}
    /\ ~(t.kind = "slice" /\ t.elemKind = "uint8")

AfterBuildRet == pc \in {"retBuilt", "retRejected", "retRun", "retFailed", "retReported", "panicked"}

\* C8 as stated: every return type outside the families is rejected with
\* MISUSE "don't know how to convert to X".
C8_RetBuildErrorMessage ==
    (AfterBuildRet /\ OutsideRetFamilies(typ))
    => /\ conv = NilConv
       /\ buildErr = pkgErr("MISUSE", "don't know how to convert to %s", <<typ>>)

\* C8 as amended: every return type outside the families is rejected with a
\* MISUSE error; the message is "the only supported slice type is []byte"
\* for a slice, and "don't know how to convert to X" for any other type.
C8_RetBuildErrorAmended ==
    (AfterBuildRet /\ OutsideRetFamilies(typ))
    => /\ conv = NilConv
       /\ pc = "retRejected"
       /\ buildErr = IF typ.kind = "slice"
                     THEN pkgErr("MISUSE", "the only supported slice type is []byte", <<>>)
                     ELSE pkgErr("MISUSE", "don't know how to convert to %s", <<typ>>)

C8_Witness ==
    /\ pc = "retRejected"
    /\ typ.kind = "slice"
    /\ typ.elemKind = "int32"
    /\ IsMisuse(buildErr)

\* C9: the integer return converter writes exactly one int64 for a value of
\* kind bool (1 or 0) or of any integer width (the value converted to
\* int64), and for any other kind writes nothing and returns MISUSE
\* "cannot convert X to INTEGER".
C9_IntegerReturn ==
    (AfterRunRet /\ conv.name = "callbackRetInteger")
    => CASE hv.typ.kind = "bool" ->
                /\ retErr = NoErr
                /\ ctx = <<MkWrite("int64", IF hv.b THEN One64 ELSE Zero64, "", FALSE, NoErr)>>
         [] hv.typ.kind \in IntKinds \ {"uintptr"} ->
                /\ retErr = NoErr
                /\ ctx = <<MkWrite("int64", Extend64(hv.bytes, hv.typ.kind), "", FALSE, NoErr)>>
         [] OTHER ->
                /\ retErr = pkgErr("MISUSE", "cannot convert %s to INTEGER", <<hv.typ>>)
                /\ ctx = <<>>

\* C10: on a Text or Blob cell the String and the Bytes converters yield
\* the same bytes, as many as the cell's byte length, embedded NUL included.
C10_StringEqualsBytes ==
    (pc = "argRun" /\ conv.name = "callbackArgString" /\ cell.kind \in {"TEXT", "BLOB"})
    => /\ out.err = NoErr
       /\ out.val.bytes = callbackArgBytes(cell).val.bytes
       /\ Len(out.val.bytes) = sqlite3_value_bytes(cell)

====
